---- MODULE Spec2Model ----
(***************************************************************************)
(* Model of the cqrs crate: the aggregates of tests/lib.rs and src/doc.rs,  *)
(* the command pipeline CqrsFramework::execute_with_metadata (src/cqrs.rs)  *)
(* and the actor registry ActorRegistry::get_with_factory                   *)
(* (src/registry.rs).  The event store behind the pipeline is a             *)
(* collaborator of the crate; it is modelled from its contract              *)
(* (load / load_aggregate / commit under optimistic concurrency).           *)
(***************************************************************************)
EXTENDS Integers, Sequences, FiniteSets, TLC

\* ------------------------------------------------------------------ bounds
\* Number of execute calls made on the framework in one behaviour.
MaxCalls == 2
\* Number of get_with_factory calls made on the registry in one behaviour.
MaxRegistryCalls == 3
\* Number of threads calling the registry.
NumThreads == 2
\* Number of Count messages an actor is sent in one behaviour.
MaxCount == 1
\* Number of events in a baseline or an expectation of the test framework.
MaxEvents == 2

Calls == 1..MaxCalls

\* the vector of query processors the framework is constructed with
QueryProcessors == <<"view_1", "view_2">>
Processors == {QueryProcessors[i] : i \in 1..Len(QueryProcessors)}

\* aggregate ids the callers use
AggregateIds == {"id_A", "id_B"}

\* metadata maps: execute passes HashMap::new(), execute_with_metadata any map
EmptyMetadata == <<>>
Metadatas == {EmptyMetadata, <<<<"time", "2021-03-18T12:32:45.930Z">>>>}

\* an optional value: <<>> is none, <<x>> is x
None == <<>>
Some(x) == <<x>>

\* Aggregate::aggregate_type() of the two aggregates of the repository
TestAggregateType == "TestAggregates"
CustomerType == "customer"
AggregateTypes == {TestAggregateType, CustomerType}

\* ------------------------------------------------------- results of handle
Ok(events) == [ok |-> TRUE, events |-> events]
UserError(message) == [kind |-> "UserError", message |-> message]
TechnicalError(message) == [kind |-> "TechnicalError", message |-> message]
Err(error) == [ok |-> FALSE, error |-> error]

\* ------------------------------------------------ TestAggregate (tests/lib.rs)
Created(id) == [type |-> "Created", id |-> id]
Tested(test_name) == [type |-> "Tested", test_name |-> test_name]
SomethingElse(description) == [type |-> "SomethingElse", description |-> description]

CreateTest(id) == [type |-> "CreateTest", id |-> id]
ConfirmTest(test_name) == [type |-> "ConfirmTest", test_name |-> test_name]
DoSomethingElse(description) == [type |-> "DoSomethingElse", description |-> description]

TestAggregateDefault == [id |-> "", description |-> "", tests |-> <<>>]

TestAggregateApply(self, msg) ==
    CASE msg.type = "Created" -> [self EXCEPT !.id = msg.id]
      [] msg.type = "Tested" -> [self EXCEPT !.tests = Append(@, msg.test_name)]
      [] msg.type = "SomethingElse" -> [self EXCEPT !.description = msg.description]

TestAggregateHandle(self, msg) ==
    CASE msg.type = "CreateTest" -> Ok(<<Created(msg.id)>>)
      [] msg.type = "ConfirmTest" ->
            IF \E i \in 1..Len(self.tests) : self.tests[i] = msg.test_name
            THEN Err(UserError("test already performed"))
            ELSE Ok(<<Tested(msg.test_name)>>)
      [] msg.type = "DoSomethingElse" -> Ok(<<SomethingElse(msg.description)>>)

TestCommands ==
    {CreateTest("test_id_A"), ConfirmTest("TEST_A"), DoSomethingElse("descr")}

\* ------------------------------------------------------- Customer (src/doc.rs)
NameAdded(changed_name) == [type |-> "NameAdded", changed_name |-> changed_name]
EmailUpdated(new_email) == [type |-> "EmailUpdated", new_email |-> new_email]

AddCustomerName(changed_name) == [type |-> "AddCustomerName", changed_name |-> changed_name]
UpdateEmail(new_email) == [type |-> "UpdateEmail", new_email |-> new_email]

CustomerDefault == [customer_id |-> "", name |-> "", email |-> ""]

CustomerApply(self, msg) ==
    CASE msg.type = "NameAdded" -> [self EXCEPT !.name = msg.changed_name]
      [] msg.type = "EmailUpdated" -> [self EXCEPT !.email = msg.new_email]

CustomerHandle(self, msg) ==
    CASE msg.type = "AddCustomerName" ->
            IF self.name # ""
            THEN Err(UserError("a name has already been added for this customer"))
            ELSE Ok(<<NameAdded(msg.changed_name)>>)
      [] msg.type = "UpdateEmail" -> Ok(<<>>)

CustomerCommands ==
    {AddCustomerName("John Doe"), UpdateEmail("john@doe")}

\* ------------------------------------- the Aggregate protocol, by aggregate type
Default(A) == IF A = TestAggregateType THEN TestAggregateDefault ELSE CustomerDefault

Apply(A, self, event) ==
    IF A = TestAggregateType THEN TestAggregateApply(self, event)
    ELSE CustomerApply(self, event)

Handle(A, self, command) ==
    IF A = TestAggregateType THEN TestAggregateHandle(self, command)
    ELSE CustomerHandle(self, command)

Commands(A) == IF A = TestAggregateType THEN TestCommands ELSE CustomerCommands

\* apply the events, in order, to an aggregate
RECURSIVE ApplyAll(_, _, _)
ApplyAll(A, self, events) ==
    IF events = <<>> THEN self
    ELSE ApplyAll(A, Apply(A, self, Head(events)), Tail(events))

\* ------------------------------------------------------------------- state
VARIABLES
    aggregate_type,     \* the aggregate A the framework and its store are built for
    store,              \* EventStore: aggregate id -> ordered event envelopes
    view_events,        \* per query processor: the envelopes delivered (TestView.events)
    dispatch_calls,     \* per query processor: the dispatch calls received, in order
    pc,                 \* per execute call: where the call stands
    call,               \* per execute call: (aggregate_id, command, metadata)
    aggregate_context,  \* per execute call: the loaded AggregateContext (kept after
                        \* commit consumed it, as the record of what was loaded)
    resultant_events,   \* per execute call: the events handle returned
    committed_events,   \* per execute call: the envelopes commit returned
    processor,          \* per execute call: position in the loop over query_processors
    result,             \* per execute call: the value returned to the caller
    loads,              \* per execute call: number of load_aggregate calls made
    commits,            \* per execute call: number of commit calls made
    overlap,            \* per execute call: the calls that had loaded and not yet
                        \* committed when this call loaded
    map,                \* ActorRegistry.map: id -> the boxed Addr stored (type, address)
    lock,               \* the thread holding the mutex of the map, 0 when it is free
    poisoned,           \* the mutex is poisoned: a thread panicked while holding it
    actors,             \* the actors started, by address: type, id, counter i, connected
    rpc,                \* per thread: where its get_with_factory call stands
    rcall,              \* per thread: (id, actor type, factory) of its running call
    rresult,            \* per thread: what its last call returned
    rpath,              \* per thread: how its last call ended ("hit", "created", ...)
    factory_calls,      \* per id: number of factory invocations so far
    registry_calls,     \* number of get_with_factory calls made so far
    last_call,          \* the latest get_with_factory call: thread, id, type, factory
    executor,           \* AggregateTestExecutor.events, when an executor exists
    validator,          \* AggregateResultValidator.result, when a validator exists
    given_events,       \* the baseline the latest when folded
    when_command,       \* the command the latest when handled
    captured,           \* the result the latest expectation was made on
    assertion,          \* the latest expectation: method and expected value
    verdict             \* "none", "passed", or the panic the expectation ended in

pipeVars == <<aggregate_type, store, view_events, dispatch_calls, pc, call,
              aggregate_context, resultant_events, committed_events, processor,
              result, loads, commits, overlap>>

regVars == <<map, lock, poisoned, actors, rpc, rcall, rresult, rpath,
             factory_calls, registry_calls, last_call>>

testVars == <<executor, validator, given_events, when_command, captured, assertion,
              verdict>>

vars == <<pipeVars, regVars, testVars>>

\* ------------------------------------------- EventStore contract (collaborator)
\* sequence number of the last stored envelope, 0 for a fresh id
CurrentSequence(envelopes) ==
    IF envelopes = <<>> THEN 0 ELSE envelopes[Len(envelopes)].sequence

Payloads(envelopes) == [i \in 1..Len(envelopes) |-> envelopes[i].payload]

\* load(id): the ordered history of the id
StoreLoad(s, id) == s[id]

\* load_aggregate(id): the history folded into a fresh aggregate, with its version
StoreLoadAggregate(A, s, id) ==
    [aggregate_id |-> id,
     aggregate |-> ApplyAll(A, Default(A), Payloads(StoreLoad(s, id))),
     current_sequence |-> CurrentSequence(StoreLoad(s, id))]

WrapEvents(id, current_sequence, events, metadata) ==
    [i \in 1..Len(events) |->
        [aggregate_id |-> id, sequence |-> current_sequence + i,
         payload |-> events[i], metadata |-> metadata]]

ConcurrencyError == TechnicalError("concurrency")

\* commit(events, context, metadata): accepted only when no other commit has
\* advanced the sequence number of the id past the one the context was loaded at
StoreCommit(s, events, context, metadata) ==
    IF CurrentSequence(s[context.aggregate_id]) # context.current_sequence
    THEN [ok |-> FALSE, error |-> ConcurrencyError, store |-> s, committed |-> <<>>]
    ELSE LET wrapped == WrapEvents(context.aggregate_id, context.current_sequence,
                                   events, metadata)
         IN [ok |-> TRUE, error |-> ConcurrencyError,
             store |-> [s EXCEPT ![context.aggregate_id] = @ \o wrapped],
             committed |-> wrapped]

\* ------------------------------------------------- CqrsFramework (src/cqrs.rs)
ExecOk == [ok |-> TRUE]

\* CqrsFramework::new(store, query_processors) on a fresh store and fresh views
PipeInit ==
    /\ aggregate_type \in AggregateTypes
    /\ store = [id \in AggregateIds |-> <<>>]
    /\ view_events = [q \in Processors |-> <<>>]
    /\ dispatch_calls = [q \in Processors |-> <<>>]
    /\ pc = [c \in Calls |-> "idle"]
    /\ call = [c \in Calls |-> None]
    /\ aggregate_context = [c \in Calls |-> None]
    /\ resultant_events = [c \in Calls |-> <<>>]
    /\ committed_events = [c \in Calls |-> <<>>]
    /\ processor = [c \in Calls |-> 0]
    /\ result = [c \in Calls |-> None]
    /\ loads = [c \in Calls |-> 0]
    /\ commits = [c \in Calls |-> 0]
    /\ overlap = [c \in Calls |-> {}]

\* lines 112-114: the call holds the loaded context and handle has returned r;
\* an Err leaves the function (the ? operator), an Ok goes on to commit
Loaded(c, aggregate_id, command, metadata, context, r) ==
    /\ pc[c] = "idle"
    /\ \A d \in Calls : d < c => pc[d] # "idle"
    /\ call' = [call EXCEPT ![c] =
                  Some([aggregate_id |-> aggregate_id, command |-> command,
                        metadata |-> metadata])]
    /\ aggregate_context' = [aggregate_context EXCEPT ![c] = Some(context)]
    /\ loads' = [loads EXCEPT ![c] = @ + 1]
    /\ overlap' = [overlap EXCEPT ![c] = {d \in Calls : pc[d] = "commit"}]
    /\ IF r.ok
       THEN /\ resultant_events' = [resultant_events EXCEPT ![c] = r.events]
            /\ pc' = [pc EXCEPT ![c] = "commit"]
            /\ UNCHANGED result
       ELSE /\ result' = [result EXCEPT ![c] = Some(Err(r.error))]
            /\ pc' = [pc EXCEPT ![c] = "done"]
            /\ UNCHANGED resultant_events
    /\ UNCHANGED <<aggregate_type, store, view_events, dispatch_calls,
                   committed_events, processor, commits>>
    /\ UNCHANGED <<regVars, testVars>>

\* ExecuteWithMetadata handing handle a fresh default aggregate instead of the one
\* folded from the history
ExecuteWithMetadata_NoFold(c, aggregate_id, command, metadata) ==
    LET context == [StoreLoadAggregate(aggregate_type, store, aggregate_id)
                        EXCEPT !.aggregate = Default(aggregate_type)]
    IN Loaded(c, aggregate_id, command, metadata, context,
              Handle(aggregate_type, context.aggregate, command))

\* ExecuteWithMetadata without the ?: a business error is dropped and the call
\* goes on to commit an empty batch
ExecuteWithMetadata_IgnoreError(c, aggregate_id, command, metadata) ==
    LET context == StoreLoadAggregate(aggregate_type, store, aggregate_id)
        r == Handle(aggregate_type, context.aggregate, command)
    IN Loaded(c, aggregate_id, command, metadata, context,
              IF r.ok THEN r ELSE Ok(<<>>))

\* lines 106-114: a caller invokes execute_with_metadata(aggregate_id, command,
\* metadata): the aggregate is loaded from the store,
\*     let aggregate_context = self.store.load_aggregate(aggregate_id).await;
\* and the command is handled on it,
\*     let resultant_events = aggregate.handle(command)?;
ExecuteWithMetadata(c, aggregate_id, command, metadata) ==
    LET context == StoreLoadAggregate(aggregate_type, store, aggregate_id)
    IN Loaded(c, aggregate_id, command, metadata, context,
              Handle(aggregate_type, context.aggregate, command))

\* lines 75-82: execute(aggregate_id, command), execute_with_metadata with HashMap::new()
Execute(c, aggregate_id, command) ==
    ExecuteWithMetadata(c, aggregate_id, command, EmptyMetadata)

\* line 123: Ok(()) once the loop over query_processors is over
ReturnOk(c) ==
    /\ result' = [result EXCEPT ![c] = Some(ExecOk)]
    /\ pc' = [pc EXCEPT ![c] = "done"]

\* lines 115-118: commit has returned r; an Err leaves the function (the ?
\* operator), an Ok enters the loop over query_processors
Committed(c, r) ==
    /\ pc[c] = "commit"
    /\ store' = r.store
    /\ commits' = [commits EXCEPT ![c] = @ + 1]
    /\ IF r.ok
       THEN /\ committed_events' = [committed_events EXCEPT ![c] = r.committed]
            /\ processor' = [processor EXCEPT ![c] = 1]
            /\ IF QueryProcessors = <<>>
               THEN ReturnOk(c)
               ELSE pc' = [pc EXCEPT ![c] = "dispatch"] /\ UNCHANGED result
       ELSE /\ result' = [result EXCEPT ![c] = Some(Err(r.error))]
            /\ pc' = [pc EXCEPT ![c] = "done"]
            /\ UNCHANGED <<committed_events, processor>>
    /\ UNCHANGED <<aggregate_type, view_events, dispatch_calls, call, loads,
                   aggregate_context, resultant_events, overlap>>
    /\ UNCHANGED <<regVars, testVars>>

\* ExecuteCommit without the ?: a commit error is dropped and the events that
\* were not stored are dispatched
ExecuteCommit_IgnoreConflict(c) ==
    LET context == aggregate_context[c][1]
        r == StoreCommit(store, resultant_events[c], context, call[c][1].metadata)
    IN Committed(c, [r EXCEPT !.ok = TRUE,
                              !.committed = WrapEvents(context.aggregate_id,
                                                context.current_sequence,
                                                resultant_events[c],
                                                call[c][1].metadata)])

\* ExecuteCommit committing with a context loaded anew at commit time instead of
\* the one the command was handled on
ExecuteCommit_Reload(c) ==
    Committed(c, StoreCommit(store, resultant_events[c],
                             StoreLoadAggregate(aggregate_type, store,
                                                call[c][1].aggregate_id),
                             call[c][1].metadata))

\* ExecuteCommit handing the store the batch without its first event
ExecuteCommit_DropFirst(c) ==
    Committed(c, StoreCommit(store,
                             IF resultant_events[c] = <<>> THEN <<>>
                             ELSE Tail(resultant_events[c]),
                             aggregate_context[c][1], call[c][1].metadata))

\* ExecuteCommit retrying inside the call: on a commit error the aggregate is
\* loaded again, the command handled anew and the commit repeated
ExecuteCommit_Retry(c) ==
    /\ pc[c] = "commit"
    /\ LET r == StoreCommit(store, resultant_events[c], aggregate_context[c][1],
                            call[c][1].metadata)
           again == StoreLoadAggregate(aggregate_type, store, call[c][1].aggregate_id)
           h == Handle(aggregate_type, again.aggregate, call[c][1].command)
       IN IF r.ok \/ ~h.ok
          THEN Committed(c, r)
          ELSE /\ aggregate_context' = [aggregate_context EXCEPT ![c] = Some(again)]
               /\ resultant_events' = [resultant_events EXCEPT ![c] = h.events]
               /\ loads' = [loads EXCEPT ![c] = IF @ < 2 THEN @ + 1 ELSE @]
               /\ commits' = [commits EXCEPT ![c] = IF @ < 2 THEN @ + 1 ELSE @]
               /\ UNCHANGED <<aggregate_type, store, view_events, dispatch_calls, pc,
                              call, committed_events, processor, result, overlap>>
               /\ UNCHANGED <<regVars, testVars>>

\* ExecuteCommit committing with the context loaded last on the framework, by
\* whichever call, instead of the one this call loaded
ExecuteCommit_LastContext(c) ==
    /\ pc[c] = "commit"
    /\ LET last == CHOOSE d \in Calls :
                       pc[d] # "idle" /\ \A e \in Calls : pc[e] # "idle" => e <= d
       IN Committed(c, StoreCommit(store, resultant_events[c],
                                   aggregate_context[last][1], call[c][1].metadata))

\* ExecuteCommit returning Ok at once, without commit and dispatch, when handle
\* returned no event
ExecuteCommit_SkipEmpty(c) ==
    /\ pc[c] = "commit"
    /\ IF resultant_events[c] = <<>>
       THEN /\ ReturnOk(c)
            /\ UNCHANGED <<aggregate_type, store, view_events, dispatch_calls, call,
                           aggregate_context, resultant_events, committed_events,
                           processor, loads, commits, overlap>>
            /\ UNCHANGED <<regVars, testVars>>
       ELSE Committed(c, StoreCommit(store, resultant_events[c],
                                     aggregate_context[c][1], call[c][1].metadata))

\* lines 115-118: self.store.commit(resultant_events, aggregate_context, metadata).await?
ExecuteCommit(c) ==
    Committed(c, StoreCommit(store, resultant_events[c], aggregate_context[c][1],
                             call[c][1].metadata))

\* TestView::dispatch: every envelope of the batch is pushed onto the view's list
TestViewDispatch(events, batch) == events \o batch

\* what query processor q holds once execute call c has dispatched batch to it
DispatchTo(q, c, batch) ==
    /\ view_events' = [view_events EXCEPT ![q] = TestViewDispatch(@, batch)]
    /\ dispatch_calls' = [dispatch_calls EXCEPT ![q] =
          Append(@, [call |-> c, aggregate_id |-> call[c][1].aggregate_id,
                     events |-> batch])]

\* ExecuteDispatch leaving the loop after the first query processor
ExecuteDispatch_FirstOnly(c) ==
    /\ pc[c] = "dispatch"
    /\ DispatchTo(QueryProcessors[processor[c]], c, committed_events[c])
    /\ processor' = [processor EXCEPT ![c] = @ + 1]
    /\ ReturnOk(c)
    /\ UNCHANGED <<aggregate_type, store, call, aggregate_context, resultant_events,
                   committed_events, loads, commits, overlap>>
    /\ UNCHANGED <<regVars, testVars>>

\* ExecuteDispatch calling dispatch a second time on the same query processor
ExecuteDispatch_Repeat(c) ==
    /\ pc[c] = "dispatch"
    /\ LET q == QueryProcessors[processor[c]]
           batch == committed_events[c]
           entry == [call |-> c, aggregate_id |-> call[c][1].aggregate_id,
                     events |-> batch]
       IN /\ view_events' = [view_events EXCEPT ![q] =
                  TestViewDispatch(TestViewDispatch(@, batch), batch)]
          /\ dispatch_calls' = [dispatch_calls EXCEPT ![q] = Append(Append(@, entry), entry)]
    /\ processor' = [processor EXCEPT ![c] = @ + 1]
    /\ IF processor[c] = Len(QueryProcessors)
       THEN ReturnOk(c)
       ELSE UNCHANGED <<pc, result>>
    /\ UNCHANGED <<aggregate_type, store, call, aggregate_context, resultant_events,
                   committed_events, loads, commits, overlap>>
    /\ UNCHANGED <<regVars, testVars>>

\* ExecuteDispatch going through the query processors last to first
ExecuteDispatch_LastFirst(c) ==
    /\ pc[c] = "dispatch"
    /\ DispatchTo(QueryProcessors[Len(QueryProcessors) + 1 - processor[c]], c,
                  committed_events[c])
    /\ processor' = [processor EXCEPT ![c] = @ + 1]
    /\ IF processor[c] = Len(QueryProcessors)
       THEN ReturnOk(c)
       ELSE UNCHANGED <<pc, result>>
    /\ UNCHANGED <<aggregate_type, store, call, aggregate_context, resultant_events,
                   committed_events, loads, commits, overlap>>
    /\ UNCHANGED <<regVars, testVars>>

\* lines 119-123: one turn of the loop over query_processors,
\*     processor.dispatch(aggregate_id, dispatch_events).await;
\* after the last turn the function returns Ok(())
ExecuteDispatch(c) ==
    /\ pc[c] = "dispatch"
    /\ DispatchTo(QueryProcessors[processor[c]], c, committed_events[c])
    /\ processor' = [processor EXCEPT ![c] = @ + 1]
    /\ IF processor[c] = Len(QueryProcessors)
       THEN ReturnOk(c)
       ELSE UNCHANGED <<pc, result>>
    /\ UNCHANGED <<aggregate_type, store, call, aggregate_context, resultant_events,
                   committed_events, loads, commits, overlap>>
    /\ UNCHANGED <<regVars, testVars>>

\* ============================================= ActorRegistry (src/registry.rs)
Threads == 1..NumThreads

\* ids the registry is asked for
RegistryIds == {"act_123", "act_456"}

\* the actor types A of the Addr<A> the callers ask for
ActorTypes == {"TestActor", "TestAggregate"}

\* the factories the callers pass: one starts an actor for the id, one panics
Factories == {"start", "panic"}

LockError == [kind |-> "LockError", id |-> ""]
InvalidRegistryEntry(id) == [kind |-> "InvalidRegistryEntry", id |-> id]
RegOk(addr) == [ok |-> TRUE, addr |-> addr]
RegErr(error) == [ok |-> FALSE, error |-> error]

\* ActorRegistry::default()
RegInit ==
    /\ map = [id \in RegistryIds |-> None]
    /\ lock = 0
    /\ poisoned = FALSE
    /\ actors = <<>>
    /\ rpc = [t \in Threads |-> "idle"]
    /\ rcall = [t \in Threads |-> None]
    /\ rresult = [t \in Threads |-> None]
    /\ rpath = [t \in Threads |-> "none"]
    /\ factory_calls = [id \in RegistryIds |-> 0]
    /\ registry_calls = 0
    /\ last_call = None

\* Addr::connected()
Connected(addr) == actors[addr].connected

\* get_with_factory returns value to thread t and the guard of the map is dropped
RegReturn(t, value, path) ==
    /\ rresult' = [rresult EXCEPT ![t] = Some(value)]
    /\ rpath' = [rpath EXCEPT ![t] = path]
    /\ rpc' = [rpc EXCEPT ![t] = "idle"]
    /\ rcall' = [rcall EXCEPT ![t] = None]
    /\ lock' = 0

\* a downcast that succeeds whatever the type of the entry
Downcasts_Any(entry, A) == TRUE

\* lines 37-41: the entry found downcasts to Addr<A>
Downcasts(entry, A) == entry.type = A

\* the liveness test failing for every address
Alive_Never(addr) == FALSE

\* lines 43-45: the address found is returned when the actor is alive
Alive(addr) == Connected(addr)

\* a call that goes on although the mutex is poisoned
GetWithFactory_IgnorePoison(t, id, A, factory) ==
    /\ rpc[t] = "idle"
    /\ registry_calls < MaxRegistryCalls
    /\ lock = 0
    /\ registry_calls' = registry_calls + 1
    /\ last_call' = Some([thread |-> t, id |-> id, type |-> A, factory |-> factory])
    /\ IF map[id] # None /\ ~Downcasts(map[id][1], A)
       THEN RegReturn(t, RegErr(InvalidRegistryEntry(id)), "invalid")
       ELSE IF map[id] # None /\ Alive(map[id][1].addr)
       THEN RegReturn(t, RegOk(map[id][1].addr), "hit")
       ELSE /\ lock' = t
            /\ rpc' = [rpc EXCEPT ![t] = "factory"]
            /\ rcall' = [rcall EXCEPT ![t] =
                            Some([id |-> id, type |-> A, factory |-> factory])]
            /\ rresult' = [rresult EXCEPT ![t] = None]
            /\ rpath' = [rpath EXCEPT ![t] = "none"]
    /\ UNCHANGED <<map, poisoned, actors, factory_calls>>
    /\ UNCHANGED <<pipeVars, testVars>>

\* a call that looks the id up without waiting for the mutex
GetWithFactory_NoLock(t, id, A, factory) ==
    /\ rpc[t] = "idle"
    /\ registry_calls < MaxRegistryCalls
    /\ registry_calls' = registry_calls + 1
    /\ last_call' = Some([thread |-> t, id |-> id, type |-> A, factory |-> factory])
    /\ IF poisoned
       THEN RegReturn(t, RegErr(LockError), "lock_error")
       ELSE IF map[id] # None /\ ~Downcasts(map[id][1], A)
       THEN RegReturn(t, RegErr(InvalidRegistryEntry(id)), "invalid")
       ELSE IF map[id] # None /\ Alive(map[id][1].addr)
       THEN RegReturn(t, RegOk(map[id][1].addr), "hit")
       ELSE /\ lock' = t
            /\ rpc' = [rpc EXCEPT ![t] = "factory"]
            /\ rcall' = [rcall EXCEPT ![t] =
                            Some([id |-> id, type |-> A, factory |-> factory])]
            /\ rresult' = [rresult EXCEPT ![t] = None]
            /\ rpath' = [rpath EXCEPT ![t] = "none"]
    /\ UNCHANGED <<map, poisoned, actors, factory_calls>>
    /\ UNCHANGED <<pipeVars, testVars>>

\* lines 29-46: thread t calls get_with_factory::<A, F>(id, factory): the mutex is
\* taken (LockError when it is poisoned), the id looked up, a found entry downcast
\* to Addr<A> (InvalidRegistryEntry when it is of another type) and returned when
\* it is connected; otherwise the call goes on to the factory, holding the mutex
GetWithFactory(t, id, A, factory) ==
    /\ rpc[t] = "idle"
    /\ registry_calls < MaxRegistryCalls
    /\ lock = 0
    /\ registry_calls' = registry_calls + 1
    /\ last_call' = Some([thread |-> t, id |-> id, type |-> A, factory |-> factory])
    /\ IF poisoned
       THEN RegReturn(t, RegErr(LockError), "lock_error")
       ELSE IF map[id] # None /\ ~Downcasts(map[id][1], A)
       THEN RegReturn(t, RegErr(InvalidRegistryEntry(id)), "invalid")
       ELSE IF map[id] # None /\ Alive(map[id][1].addr)
       THEN RegReturn(t, RegOk(map[id][1].addr), "hit")
       ELSE /\ lock' = t
            /\ rpc' = [rpc EXCEPT ![t] = "factory"]
            /\ rcall' = [rcall EXCEPT ![t] =
                            Some([id |-> id, type |-> A, factory |-> factory])]
            /\ rresult' = [rresult EXCEPT ![t] = None]
            /\ rpath' = [rpath EXCEPT ![t] = "none"]
    /\ UNCHANGED <<map, poisoned, actors, factory_calls>>
    /\ UNCHANGED <<pipeVars, testVars>>

\* a creation whose panic leaves the mutex sound
RegFactory_NoPoison(t) ==
    /\ rpc[t] = "factory"
    /\ factory_calls' = [factory_calls EXCEPT ![rcall[t][1].id] = @ + 1]
    /\ IF rcall[t][1].factory = "panic"
       THEN /\ lock' = 0
            /\ rpc' = [rpc EXCEPT ![t] = "panicked"]
            /\ rpath' = [rpath EXCEPT ![t] = "panicked"]
            /\ UNCHANGED <<actors, map, rcall, rresult, poisoned>>
       ELSE /\ actors' = Append(actors, [type |-> rcall[t][1].type,
                                         id |-> rcall[t][1].id,
                                         i |-> 0, connected |-> TRUE])
            /\ map' = [map EXCEPT ![rcall[t][1].id] =
                          Some([type |-> rcall[t][1].type, addr |-> Len(actors) + 1])]
            /\ RegReturn(t, RegOk(Len(actors) + 1), "created")
            /\ UNCHANGED poisoned
    /\ UNCHANGED <<registry_calls, last_call>>
    /\ UNCHANGED <<pipeVars, testVars>>

\* a creation that returns the new address without storing it
RegFactory_NoInsert(t) ==
    /\ rpc[t] = "factory"
    /\ factory_calls' = [factory_calls EXCEPT ![rcall[t][1].id] = @ + 1]
    /\ IF rcall[t][1].factory = "panic"
       THEN /\ poisoned' = TRUE
            /\ lock' = 0
            /\ rpc' = [rpc EXCEPT ![t] = "panicked"]
            /\ rpath' = [rpath EXCEPT ![t] = "panicked"]
            /\ UNCHANGED <<actors, map, rcall, rresult>>
       ELSE /\ actors' = Append(actors, [type |-> rcall[t][1].type,
                                         id |-> rcall[t][1].id,
                                         i |-> 0, connected |-> TRUE])
            /\ map' = map
            /\ RegReturn(t, RegOk(Len(actors) + 1), "created")
            /\ UNCHANGED poisoned
    /\ UNCHANGED <<registry_calls, last_call>>
    /\ UNCHANGED <<pipeVars, testVars>>

\* lines 47-49: let addr = factory(id); map.insert(id.to_owned(),
\* Box::new(addr.clone())); Ok(addr).  The factory of the tests starts
\* TestActor { id, i: 0 }; the panicking one unwinds through the guard of the
\* map, which poisons the mutex
RegFactory(t) ==
    /\ rpc[t] = "factory"
    /\ factory_calls' = [factory_calls EXCEPT ![rcall[t][1].id] = @ + 1]
    /\ IF rcall[t][1].factory = "panic"
       THEN /\ poisoned' = TRUE
            /\ lock' = 0
            /\ rpc' = [rpc EXCEPT ![t] = "panicked"]
            /\ rpath' = [rpath EXCEPT ![t] = "panicked"]
            /\ UNCHANGED <<actors, map, rcall, rresult>>
       ELSE /\ actors' = Append(actors, [type |-> rcall[t][1].type,
                                         id |-> rcall[t][1].id,
                                         i |-> 0, connected |-> TRUE])
            /\ map' = [map EXCEPT ![rcall[t][1].id] =
                          Some([type |-> rcall[t][1].type, addr |-> Len(actors) + 1])]
            /\ RegReturn(t, RegOk(Len(actors) + 1), "created")
            /\ UNCHANGED poisoned
    /\ UNCHANGED <<registry_calls, last_call>>
    /\ UNCHANGED <<pipeVars, testVars>>

\* the address thread t holds from its last call
Holds(t, addr) == rresult[t] # None /\ rresult[t][1].ok /\ rresult[t][1].addr = addr

\* Handler<Count> for TestActor: addr.send(Count) by a caller holding the address
SendCount(t, addr) ==
    /\ addr \in 1..Len(actors)
    /\ Holds(t, addr)
    /\ Connected(addr)
    /\ actors[addr].i < MaxCount
    /\ actors' = [actors EXCEPT ![addr].i = @ + 1]
    /\ UNCHANGED <<map, lock, poisoned, rpc, rcall, rresult, rpath, factory_calls,
                   registry_calls, last_call>>
    /\ UNCHANGED <<pipeVars, testVars>>

\* Handler<Stop> for TestActor: ctx.stop(), after which the address is not connected
SendStop(t, addr) ==
    /\ addr \in 1..Len(actors)
    /\ Holds(t, addr)
    /\ Connected(addr)
    /\ actors' = [actors EXCEPT ![addr].connected = FALSE]
    /\ UNCHANGED <<map, lock, poisoned, rpc, rcall, rresult, rpath, factory_calls,
                   registry_calls, last_call>>
    /\ UNCHANGED <<pipeVars, testVars>>

\* ======================================= TestFramework (src/test.rs), the harness
\* event values the tests build baselines and expectations from
Names == {"", "John Doe", "Jane Doe"}

TestEvents ==
    {Created("test_id_A"), Tested("TEST_A"), Tested("TEST_B"), SomethingElse("descr")}

CustomerEvents == {NameAdded(n) : n \in Names} \cup {EmailUpdated("john@doe")}

Events(A) == IF A = TestAggregateType THEN TestEvents ELSE CustomerEvents

\* Vec<A::Event> values of at most MaxEvents events
EventVecs(A) == UNION {[1..n -> Events(A)] : n \in 0..MaxEvents}

\* the commands the tests pass to when
WhenCommands(A) ==
    IF A = TestAggregateType THEN TestCommands
    ELSE {AddCustomerName(n) : n \in Names} \cup {UpdateEmail("john@doe")}

\* the messages the tests pass to then_expect_error
ErrorMessages ==
    {"test already performed", "a name has already been added for this customer",
     "some error message"}

\* err.to_string() of the payload of a user error: its message
ErrToString(err) == err.message

\* TestFramework::default(): no executor and no validator exist yet
TestInit ==
    /\ executor = None
    /\ validator = None
    /\ given_events = None
    /\ when_command = None
    /\ captured = None
    /\ assertion = None
    /\ verdict = "none"

\* lines 33-35: given_no_previous_events
GivenNoPreviousEvents ==
    /\ executor = None /\ validator = None /\ verdict = "none"
    /\ executor' = Some(<<>>)
    /\ UNCHANGED <<validator, given_events, when_command, captured, assertion, verdict>>
    /\ UNCHANGED <<pipeVars, regVars>>

\* lines 46-48: given(events)
Given(events) ==
    /\ executor = None /\ validator = None /\ verdict = "none"
    /\ events # <<>>
    /\ executor' = Some(events)
    /\ UNCHANGED <<validator, given_events, when_command, captured, assertion, verdict>>
    /\ UNCHANGED <<pipeVars, regVars>>

\* the events of a vector, last first
Reversed(events) == [i \in 1..Len(events) |-> events[Len(events) + 1 - i]]

\* a when that applies the baseline events last first
When_Reversed(command) ==
    /\ executor # None
    /\ validator' = Some(Handle(aggregate_type,
                                ApplyAll(aggregate_type, Default(aggregate_type),
                                         Reversed(executor[1])),
                                command))
    /\ executor' = None
    /\ given_events' = executor
    /\ when_command' = Some(command)
    /\ UNCHANGED <<captured, assertion, verdict>>
    /\ UNCHANGED <<pipeVars, regVars>>

\* lines 85-92: when(self, command): A::default(), apply of every event of the
\* executor in order, handle(command), and the result goes into the validator
When(command) ==
    /\ executor # None
    /\ validator' = Some(Handle(aggregate_type,
                                ApplyAll(aggregate_type, Default(aggregate_type),
                                         executor[1]),
                                command))
    /\ executor' = None
    /\ given_events' = executor
    /\ when_command' = Some(command)
    /\ UNCHANGED <<captured, assertion, verdict>>
    /\ UNCHANGED <<pipeVars, regVars>>

\* an expectation that compares the lengths of the two vectors only
ExpectEvents_LengthOnly(self_result, expected_events) ==
    IF self_result.ok
    THEN IF Len(self_result.events) = Len(expected_events)
         THEN "passed" ELSE "assertion failed"
    ELSE "expected success, received aggregate error"

\* lines 117-123: the match on self.self_result and the assert_eq! of the two slices
ExpectEvents(self_result, expected_events) ==
    IF self_result.ok
    THEN IF self_result.events = expected_events
         THEN "passed" ELSE "assertion failed"
    ELSE "expected success, received aggregate error"

\* an expectation that accepts a user error whatever its message
ExpectError_AnyMessage(self_result, error_message) ==
    IF self_result.ok THEN "expected error, received events"
    ELSE IF self_result.error.kind = "UserError" THEN "passed"
    ELSE "expected user error but found technical error"

\* lines 138-150: the match on self.self_result, on the kind of the error, and the
\* assert_eq! of the two messages
ExpectError(self_result, error_message) ==
    IF self_result.ok THEN "expected error, received events"
    ELSE IF self_result.error.kind = "UserError"
    THEN IF ErrToString(self_result.error) = error_message
         THEN "passed" ELSE "assertion failed"
    ELSE "expected user error but found technical error"

\* lines 116-124: then_expect_events(self, expected_events)
ThenExpectEvents(expected_events) ==
    /\ validator # None
    /\ verdict' = ExpectEvents(validator[1], expected_events)
    /\ captured' = validator
    /\ assertion' = Some([method |-> "then_expect_events", events |-> expected_events,
                          message |-> ""])
    /\ validator' = None
    /\ UNCHANGED <<executor, given_events, when_command>>
    /\ UNCHANGED <<pipeVars, regVars>>

\* lines 137-151: then_expect_error(self, error_message)
ThenExpectError(error_message) ==
    /\ validator # None
    /\ verdict' = ExpectError(validator[1], error_message)
    /\ captured' = validator
    /\ assertion' = Some([method |-> "then_expect_error", events |-> <<>>,
                          message |-> error_message])
    /\ validator' = None
    /\ UNCHANGED <<executor, given_events, when_command>>
    /\ UNCHANGED <<pipeVars, regVars>>

\* ================================================================ specifications
\* the command pipeline, on a registry nobody calls
Init == PipeInit /\ RegInit /\ TestInit

Next ==
    \/ \E c \in Calls, id \in AggregateIds, command \in Commands(aggregate_type) :
            Execute(c, id, command)
    \/ \E c \in Calls, id \in AggregateIds, command \in Commands(aggregate_type),
          metadata \in Metadatas :
            ExecuteWithMetadata(c, id, command, metadata)
    \/ \E c \in Calls : ExecuteCommit(c)
    \/ \E c \in Calls : ExecuteDispatch(c)

Spec == Init /\ [][Next]_vars

\* the registry, beside a framework nobody calls
RegistryInit == RegInit /\ PipeInit /\ TestInit /\ aggregate_type = TestAggregateType

RegistryNext ==
    \/ \E t \in Threads, id \in RegistryIds, A \in ActorTypes, f \in Factories :
            GetWithFactory(t, id, A, f)
    \/ \E t \in Threads : RegFactory(t)
    \/ \E t \in Threads, addr \in 1..MaxRegistryCalls : SendCount(t, addr)
    \/ \E t \in Threads, addr \in 1..MaxRegistryCalls : SendStop(t, addr)

RegistrySpec == RegistryInit /\ [][RegistryNext]_vars

\* the test framework, for either aggregate, beside a framework and a registry
\* nobody calls
TestFrameworkInit == PipeInit /\ RegInit /\ TestInit

TestFrameworkNext ==
    \/ GivenNoPreviousEvents
    \/ \E events \in EventVecs(aggregate_type) : Given(events)
    \/ \E command \in WhenCommands(aggregate_type) : When(command)
    \/ \E expected_events \in EventVecs(aggregate_type) :
            ThenExpectEvents(expected_events)
    \/ \E error_message \in ErrorMessages : ThenExpectError(error_message)

TestFrameworkSpec == TestFrameworkInit /\ [][TestFrameworkNext]_vars

\* ================================================================== claims
\* what a finished call returned
ReturnedOk(c) == result[c] = Some(ExecOk)
ReturnedErr(c) == result[c] # None /\ ~result[c][1].ok
ReturnedUserError(c) == ReturnedErr(c) /\ result[c][1].error.kind = "UserError"
ReturnedTechnicalError(c) == ReturnedErr(c) /\ result[c][1].error.kind = "TechnicalError"

\* the dispatch calls processor q received from execute call c
DispatchesOf(q, c) ==
    {k \in 1..Len(dispatch_calls[q]) : dispatch_calls[q][k].call = c}

NoDispatchOf(c) == \A q \in Processors : DispatchesOf(q, c) = {}

\* the step in which call c leaves the program point at
Leaves(c, at) == pc[c] = at /\ pc'[c] # at

\* what handle returns for call c on the aggregate it loaded
HandleResult(c) ==
    Handle(aggregate_type, aggregate_context[c][1].aggregate, call[c][1].command)

\* ------------------------------------------------------------------- C1
C1_Returned ==
    \A c \in Calls : ReturnedUserError(c) =>
        /\ pc[c] = "done"
        /\ commits[c] = 0
        /\ committed_events[c] = <<>>
        /\ NoDispatchOf(c)

C1_Step ==
    \A c \in Calls : (Leaves(c, "idle") /\ ~HandleResult(c)'.ok) =>
        /\ store' = store
        /\ dispatch_calls' = dispatch_calls
        /\ view_events' = view_events
        /\ pc'[c] = "done"
        /\ HandleResult(c)'.error.kind = "UserError"
        /\ result'[c] = Some(Err(HandleResult(c)'.error))

\* C1: when handle returns a business (user) error, the step that takes it leaves
\* the store of every id and every query processor unchanged and returns that same
\* user error; a call that returned a user error made no commit call, committed no
\* event and dispatched to no query processor.
C1_BusinessErrorAborts == []C1_Returned /\ [][C1_Step]_vars

\* a call returned the business error of ConfirmTest on a history holding the test
C1_Witness ==
    \E c \in Calls :
        /\ pc[c] = "done"
        /\ result[c] = Some(Err(UserError("test already performed")))
        /\ store[call[c][1].aggregate_id] # <<>>

\* ------------------------------------------------------------------- C2
\* the context call c loaded is stale: the sequence of its id has advanced since
Stale(c) ==
    CurrentSequence(store[call[c][1].aggregate_id])
        > aggregate_context[c][1].current_sequence

C2_Returned ==
    \A c \in Calls : ReturnedTechnicalError(c) =>
        /\ pc[c] = "done"
        /\ committed_events[c] = <<>>
        /\ NoDispatchOf(c)

C2_Step ==
    \A c \in Calls : (Leaves(c, "commit") /\ Stale(c)) =>
        /\ \A id \in AggregateIds : Len(store'[id]) = Len(store[id])
        /\ store' = store
        /\ dispatch_calls' = dispatch_calls
        /\ view_events' = view_events
        /\ pc'[c] = "done"
        /\ ReturnedTechnicalError(c)'
        /\ ~ReturnedUserError(c)'

\* C2: a commit attempted with a stale AggregateContext leaves the event count of
\* the id (and the whole store) unchanged, makes execute return a technical error,
\* not a user error, and no query processor receives a dispatch call for that call.
C2_StaleCommitAborts == []C2_Returned /\ [][C2_Step]_vars

\* a call returned the concurrency error after another call advanced its id
C2_Witness ==
    \E c \in Calls :
        /\ pc[c] = "done"
        /\ result[c] = Some(Err(ConcurrencyError))
        /\ commits[c] = 1
        /\ Stale(c)

\* ------------------------------------------------------------------- C3
IdOf(c) == call[c][1].aggregate_id
LoadedSequence(c) == aggregate_context[c][1].current_sequence

CommitSucceeded(c) == commits[c] = 1 /\ (pc[c] = "dispatch" \/ ReturnedOk(c))
CommitConflicted(c) == commits[c] = 1 /\ result[c] = Some(Err(ConcurrencyError))

\* c and d ran concurrently on one id: each had loaded before the other committed,
\* both loaded the same version, and both have made their commit call
Raced(c, d) ==
    /\ c # d
    /\ commits[c] = 1 /\ commits[d] = 1
    /\ IdOf(c) = IdOf(d)
    /\ LoadedSequence(c) = LoadedSequence(d)
    /\ (d \in overlap[c] \/ c \in overlap[d])

ExactlyOneCommitted(c, d) ==
    \/ CommitSucceeded(c) /\ CommitConflicted(d)
    \/ CommitSucceeded(d) /\ CommitConflicted(c)

ThirdCommitted(c, d) ==
    \E e \in Calls \ {c, d} :
        /\ call[e] # None /\ IdOf(e) = IdOf(c)
        /\ CommitSucceeded(e)
        /\ committed_events[e] # <<>>
        /\ committed_events[e][1].sequence = LoadedSequence(c) + 1

Contiguous(id) ==
    \A i \in 1..Len(store[id]) :
        store[id][i].sequence = i /\ store[id][i].aggregate_id = id

\* no finished or running call has committed an event to the id
Fresh(id) ==
    \A c \in Calls :
        (call[c] # None /\ IdOf(c) = id /\ CommitSucceeded(c)) =>
            resultant_events[c] = <<>>

C4_Stored == \A id \in AggregateIds : Contiguous(id) /\ (Fresh(id) => store[id] = <<>>)

C4_Step ==
    /\ \A c \in Calls : (Leaves(c, "commit") /\ pc'[c] = "dispatch") =>
          /\ Len(store'[IdOf(c)]) = Len(store[IdOf(c)]) + Len(resultant_events[c])
          /\ SubSeq(store'[IdOf(c)], 1, Len(store[IdOf(c)])) = store[IdOf(c)]
          /\ \A id \in AggregateIds \ {IdOf(c)} : store'[id] = store[id]
    /\ (\A c \in Calls : ~(Leaves(c, "commit") /\ pc'[c] = "dispatch")) => store' = store

\* C4: in every reachable state the envelopes stored for an id carry the sequence
\* numbers 1..n in order; an id no call has committed an event to has no events;
\* a successful commit of the k events handle returned grows that id's history by
\* exactly k and no other step changes the store.
C4_ContiguousSequences == []C4_Stored /\ [][C4_Step]_vars

\* two successive commits on one id: the history holds sequence numbers 1 and 2
C4_Witness ==
    \E id \in AggregateIds :
        /\ Len(store[id]) = 2
        /\ store[id][2].sequence = 2
        /\ \E jd \in AggregateIds : store[jd] = <<>>

\* ------------------------------------------------------------------- C5
\* fold(apply, default(), events of the id up to the sequence number n)
FoldStored(id, n) ==
    ApplyAll(aggregate_type, Default(aggregate_type),
             Payloads(SubSeq(store[id], 1, n)))

\* C5: the aggregate an execute call holds (the one handle is invoked on) equals
\* the fold of apply over default() and the events stored for its id up to the
\* loaded sequence number, in sequence order, and the events the call goes on to
\* commit are handle's result on that fold.
C5_StateIsFold ==
    \A c \in Calls : call[c] # None =>
        /\ LoadedSequence(c) <= Len(store[IdOf(c)])
        /\ aggregate_context[c][1].aggregate = FoldStored(IdOf(c), LoadedSequence(c))
        /\ aggregate_context[c][1].aggregate_id = IdOf(c)
        /\ pc[c] = "commit" =>
             Ok(resultant_events[c]) =
                Handle(aggregate_type, FoldStored(IdOf(c), LoadedSequence(c)),
                       call[c][1].command)
        /\ ReturnedUserError(c) =>
             result[c][1] =
                Handle(aggregate_type, FoldStored(IdOf(c), LoadedSequence(c)),
                       call[c][1].command)

\* handle has been invoked on an aggregate folded from a non-empty history
C5_Witness ==
    \E c \in Calls :
        /\ pc[c] = "commit"
        /\ LoadedSequence(c) > 0
        /\ aggregate_context[c][1].aggregate # Default(aggregate_type)

\* ------------------------------------------------------------------- C6
\* the envelope is stored, at its sequence number, in the history of its id
Stored(e) ==
    /\ e.sequence <= Len(store[e.aggregate_id])
    /\ store[e.aggregate_id][e.sequence] = e

\* C6: every envelope a query processor has received is already in the store's
\* history of the aggregate id it was dispatched for, and every dispatch call comes
\* from an execute call whose commit has succeeded.
C6_DispatchAfterCommit ==
    \A q \in Processors :
        /\ \A k \in 1..Len(dispatch_calls[q]) :
              LET d == dispatch_calls[q][k]
              IN /\ CommitSucceeded(d.call)
                 /\ d.aggregate_id = IdOf(d.call)
                 /\ \A i \in 1..Len(d.events) :
                       Stored(d.events[i]) /\ d.events[i].aggregate_id = d.aggregate_id
        /\ \A i \in 1..Len(view_events[q]) : Stored(view_events[q][i])

\* the second query processor has received a committed envelope
C6_Witness ==
    /\ Len(QueryProcessors) >= 2
    /\ view_events[QueryProcessors[2]] # <<>>
    /\ \E k \in 1..Len(dispatch_calls[QueryProcessors[2]]) :
          dispatch_calls[QueryProcessors[2]][k].events # <<>>

\* ------------------------------------------------------------------- C7
RECURSIVE StoredCount(_)
StoredCount(ids) ==
    IF ids = {} THEN 0
    ELSE LET id == CHOOSE x \in ids : TRUE
         IN Len(store[id]) + StoredCount(ids \ {id})

AllReturned == \A c \in Calls : pc[c] \in {"idle", "done"}

\* the batch call c committed, as it stands in the store
CommittedBatch(c) ==
    SubSeq(store[IdOf(c)], LoadedSequence(c) + 1,
           LoadedSequence(c) + Len(resultant_events[c]))

\* C7: no query processor is called twice for one execute; for every execute that
\* returned Ok every query processor has received exactly one dispatch call, with
\* the aggregate id of the call and the whole committed batch in commit order; and
\* once all executes have returned each processor has been delivered as many
\* events as are stored.
C7_DispatchOncePerCommit ==
    /\ \A c \in Calls, q \in Processors : Cardinality(DispatchesOf(q, c)) <= 1
    /\ \A c \in Calls : ReturnedOk(c) =>
          \A q \in Processors :
              \E k \in DispatchesOf(q, c) :
                  /\ dispatch_calls[q][k].aggregate_id = IdOf(c)
                  /\ dispatch_calls[q][k].events = committed_events[c]
                  /\ committed_events[c] = CommittedBatch(c)
                  /\ Payloads(committed_events[c]) = resultant_events[c]
    /\ AllReturned =>
          \A q \in Processors : Len(view_events[q]) = StoredCount(AggregateIds)

\* all calls have returned and every processor holds the two events stored
C7_Witness ==
    /\ \A c \in Calls : pc[c] = "done"
    /\ \E c \in Calls : ReturnedOk(c) /\ committed_events[c] # <<>>
    /\ \A q \in Processors : Len(view_events[q]) = 2

\* ------------------------------------------------------------------- C8
C8_Returned ==
    \A c \in Calls :
        /\ ReturnedOk(c) =>
              /\ commits[c] = 1
              /\ committed_events[c] = CommittedBatch(c)
              /\ Payloads(committed_events[c]) = resultant_events[c]
              /\ \A q \in Processors : DispatchesOf(q, c) # {}
        /\ ReturnedErr(c) =>
              /\ committed_events[c] = <<>>
              /\ NoDispatchOf(c)

C8_Step ==
    \A c \in Calls :
        /\ (pc[c] # "done" /\ ReturnedErr(c)') =>
              store' = store /\ dispatch_calls' = dispatch_calls
                             /\ view_events' = view_events
        /\ Leaves(c, "idle") => store' = store

\* C8: execute returns Ok only when its commit succeeded and every registered
\* query processor has been dispatched to; it returns Err only when the call has
\* stored no event (no step of it up to and including the failing one changed the
\* store) and has dispatched nothing.
C8_NoPartialError == []C8_Returned /\ [][C8_Step]_vars

\* one call returned Ok after a commit of an event, another returned an error
C8_Witness ==
    \E c, d \in Calls :
        /\ ReturnedOk(c) /\ committed_events[c] # <<>>
        /\ ReturnedErr(d) /\ pc[d] = "done"

\* ------------------------------------------------------------------- C9
C9_Counts ==
    \A c \in Calls :
        /\ loads[c] <= 1
        /\ commits[c] <= loads[c]
        /\ pc[c] # "idle" => loads[c] = 1
        /\ pc[c] \in {"dispatch"} => commits[c] = 1

C9_Step ==
    \A c \in Calls :
        /\ Leaves(c, "commit") =>
              store' = StoreCommit(store, resultant_events[c], aggregate_context[c][1],
                                   call[c][1].metadata).store
        /\ (Leaves(c, "commit") /\ Stale(c)) =>
              /\ pc'[c] = "done"
              /\ loads'[c] = loads[c]
              /\ aggregate_context'[c] = aggregate_context[c]
        /\ pc[c] = "done" =>
              /\ pc'[c] = "done"
              /\ loads'[c] = loads[c] /\ commits'[c] = commits[c]
              /\ aggregate_context'[c] = aggregate_context[c]
              /\ result'[c] = result[c]

\* C9: an execute call makes one load and at most one commit call, and that commit
\* call is made with the AggregateContext the call loaded; after a commit error the
\* call is over: it does not load again, does not commit again and its result
\* stands.
C9_NoRetry == []C9_Counts /\ [][C9_Step]_vars

\* a call is over with a concurrency conflict after one load and one commit call,
\* while the call it lost to went through
C9_Witness ==
    \E c, d \in Calls :
        /\ pc[c] = "done" /\ CommitConflicted(c)
        /\ loads[c] = 1 /\ commits[c] = 1
        /\ ReturnedOk(d) /\ IdOf(d) = IdOf(c)

\* ------------------------------------------------------------------ C10
\* the step is a get_with_factory call
RegistryCall == registry_calls' = registry_calls + 1

\* the call of this step is a hit: the mutex is sound and the entry stored for the
\* id asked for is of the type asked for and connected
RegistryHit ==
    LET lc == last_call'[1]
    IN /\ ~poisoned
       /\ map[lc.id] # None
       /\ map[lc.id][1].type = lc.type
       /\ Connected(map[lc.id][1].addr)

C10_Step ==
    (RegistryCall /\ RegistryHit) =>
        LET lc == last_call'[1]
        IN /\ factory_calls' = factory_calls
           /\ map' = map
           /\ actors' = actors
           /\ rpc'[lc.thread] = "idle"
           /\ rresult'[lc.thread] = Some(RegOk(map[lc.id][1].addr))
           /\ rpath'[lc.thread] = "hit"

C10_Stored ==
    /\ \A id \in RegistryIds :
          (\A a \in 1..Len(actors) : actors[a].id = id => Connected(a)) =>
              factory_calls[id] <= 1
    /\ \A t \in Threads : rpath[t] = "hit" =>
          LET a == rresult[t][1].addr
          IN /\ a \in 1..Len(actors)
             /\ Connected(a) => map[actors[a].id] = Some([type |-> actors[a].type,
                                                          addr |-> a])

\* C10: a get_with_factory call that finds, for the id asked for, a stored handle
\* of the requested type that is still connected (the mutex being sound) does not
\* invoke the factory, leaves the map and the actor unchanged and returns the
\* stored handle; as long as every actor started for an id is alive the factory
\* has been invoked at most once for it, and a handle returned by a hit is the one
\* the map holds.
C10_RegistryHit == []C10_Stored /\ [][C10_Step]_vars

\* test_get_if_exists: the second call, whose factory would panic, returned the
\* actor the first call started, with the count it has accumulated
C10_Witness ==
    \E t \in Threads :
        /\ last_call # None
        /\ last_call[1].thread = t /\ last_call[1].factory = "panic"
        /\ rpath[t] = "hit"
        /\ actors[rresult[t][1].addr].i >= 1
        /\ factory_calls[last_call[1].id] = 1
        /\ registry_calls = 2

\* ------------------------------------------------------------------ C11
\* the call of this step finds (the mutex being sound) no entry for the id asked
\* for, or an entry of the type asked for whose actor is not connected any more
RegistryMiss ==
    LET lc == last_call'[1]
    IN /\ ~poisoned
       /\ \/ map[lc.id] = None
          \/ /\ map[lc.id] # None
             /\ map[lc.id][1].type = lc.type
             /\ ~Connected(map[lc.id][1].addr)

\* thread t leaves the factory in this step
FactoryDone(t) == rpc[t] = "factory" /\ rpc'[t] # "factory"

C11_Step ==
    /\ (RegistryCall /\ RegistryMiss) =>
          LET lc == last_call'[1]
          IN /\ rpc'[lc.thread] = "factory"
             /\ lock' = lc.thread
             /\ rcall'[lc.thread] =
                   Some([id |-> lc.id, type |-> lc.type, factory |-> lc.factory])
             /\ map' = map /\ actors' = actors /\ factory_calls' = factory_calls
    /\ \A t \in Threads : FactoryDone(t) =>
          LET rc == rcall[t][1]
          IN /\ factory_calls' = [factory_calls EXCEPT ![rc.id] = @ + 1]
             /\ rc.factory = "start" =>
                   /\ rpath'[t] = "created"
                   /\ map'[rc.id] # None
                   /\ map'[rc.id][1].type = rc.type
                   /\ rresult'[t] = Some(RegOk(map'[rc.id][1].addr))
                   /\ map'[rc.id][1].addr \notin 1..Len(actors)
                   /\ map'[rc.id][1].addr \in 1..Len(actors')
                   /\ actors'[map'[rc.id][1].addr].connected
                   /\ actors'[map'[rc.id][1].addr].id = rc.id
                   /\ \A a \in 1..Len(actors) : actors'[a] = actors[a]
                   /\ \A id \in RegistryIds \ {rc.id} : map'[id] = map[id]
                   /\ map[rc.id] # None =>
                         /\ ~Connected(map[rc.id][1].addr)
                         /\ map'[rc.id][1].addr # map[rc.id][1].addr
    /\ factory_calls' # factory_calls => \E t \in Threads : FactoryDone(t)

\* a thread that is about to invoke the factory holds the mutex, and the entry of
\* its id is still missing or dead
C11_Stored ==
    \A t \in Threads : rpc[t] = "factory" =>
        /\ lock = t
        /\ rcall[t] # None
        /\ \/ map[rcall[t][1].id] = None
           \/ /\ map[rcall[t][1].id][1].type = rcall[t][1].type
              /\ ~Connected(map[rcall[t][1].id][1].addr)

RegistryMismatch ==
    LET lc == last_call'[1]
    IN /\ ~poisoned
       /\ map[lc.id] # None
       /\ map[lc.id][1].type # lc.type

\* a get_with_factory call of thread t returns in this step
Returns(t) ==
    /\ rpc'[t] = "idle"
    /\ \/ rpc[t] = "factory"
       \/ RegistryCall /\ last_call'[1].thread = t

\* the actor type the returning call of thread t asked for
AskedType(t) == IF rpc[t] = "factory" THEN rcall[t][1].type ELSE last_call'[1].type

C12_Step ==
    /\ (RegistryCall /\ RegistryMismatch) =>
          LET lc == last_call'[1]
          IN /\ rresult'[lc.thread] = Some(RegErr(InvalidRegistryEntry(lc.id)))
             /\ rpath'[lc.thread] = "invalid"
             /\ rpc'[lc.thread] = "idle"
             /\ factory_calls' = factory_calls
             /\ map' = map
             /\ actors' = actors
    /\ \A t \in Threads :
          (Returns(t) /\ rresult'[t][1].ok) =>
              actors'[rresult'[t][1].addr].type = AskedType(t)

\* C12: a get_with_factory call that finds (the mutex being sound) an entry for
\* the id that was created for another actor type than the one requested
\* returns InvalidRegistryEntry(id), does not invoke the factory and leaves the
\* map and the actors unchanged, whether the stored actor is alive or not; and
\* every address a call returns is of the actor type that call asked for.
C12_TypeMismatch == [][C12_Step]_vars

\* a caller asked for an id under another type than the live entry stored for it
C12_Witness ==
    \E t \in Threads :
        /\ last_call # None /\ last_call[1].thread = t
        /\ rpath[t] = "invalid"
        /\ rresult[t] = Some(RegErr(InvalidRegistryEntry(last_call[1].id)))
        /\ map[last_call[1].id] # None
        /\ map[last_call[1].id][1].type # last_call[1].type
        /\ Connected(map[last_call[1].id][1].addr)

\* ------------------------------------------------------------------ C13
\* the addresses the registry has returned for id whose actor is alive
LiveHandles(id) == {a \in 1..Len(actors) : actors[a].id = id /\ Connected(a)}

C13_Stored ==
    \A id \in RegistryIds :
        /\ Cardinality(LiveHandles(id)) <= 1
        /\ LiveHandles(id) # {} =>
              /\ map[id] # None
              /\ LiveHandles(id) = {map[id][1].addr}

C13_Step ==
    Len(actors') > Len(actors) =>
        LET id == actors'[Len(actors')].id
        IN LiveHandles(id) = {}

\* C13: in every reachable state, for every id, at most one of the actors the
\* registry has started (and returned) for that id is alive, and it is the one
\* the map holds; an actor is started for an id only in a state where none of
\* the earlier ones of that id is alive.
C13_OneLiveHandle == []C13_Stored /\ [][C13_Step]_vars

\* an id for which two actors were started: the first is dead, the second alive
C13_Witness ==
    \E id \in RegistryIds :
        /\ Cardinality({a \in 1..Len(actors) : actors[a].id = id}) = 2
        /\ Cardinality(LiveHandles(id)) = 1

\* ------------------------------------------------------------------ C14
C14_Step ==
    (RegistryCall /\ poisoned) =>
        LET lc == last_call'[1]
        IN /\ rresult'[lc.thread] = Some(RegErr(LockError))
           /\ rpath'[lc.thread] = "lock_error"
           /\ rpc'[lc.thread] = "idle"
           /\ registry_calls' = registry_calls + 1
           /\ factory_calls' = factory_calls
           /\ map' = map
           /\ actors' = actors
           /\ lock' = lock
           /\ poisoned' = poisoned

\* no thread is in (or gets to) the factory once the mutex is poisoned
C14_Stored ==
    poisoned => \A t \in Threads : rpc[t] # "factory"

\* C14: a get_with_factory call made while the mutex is poisoned returns
\* LockError in the same step (one lock attempt, no second one), without
\* invoking the factory and without changing the map, the actors or the mutex.
C14_LockFailure == []C14_Stored /\ [][C14_Step]_vars

\* a factory panicked while the mutex was held, and a later call for an id that
\* has a live entry was answered LockError
C14_Witness ==
    \E t, u \in Threads :
        /\ rpath[u] = "panicked"
        /\ poisoned
        /\ last_call # None /\ last_call[1].thread = t
        /\ rpath[t] = "lock_error"
        /\ rresult[t] = Some(RegErr(LockError))
        /\ map[last_call[1].id] # None

\* ------------------------------------------------------------------ C15
\* the state after the first n events of a vector were applied, in the order of
\* the vector, to a fresh default aggregate
RECURSIVE FoldEvents(_, _, _)
FoldEvents(A, events, n) ==
    IF n = 0 THEN Default(A)
    ELSE Apply(A, FoldEvents(A, events, n - 1), events[n])

C15_Captured ==
    validator # None =>
        /\ executor = None
        /\ given_events # None /\ when_command # None
        /\ validator[1] =
              Handle(aggregate_type,
                     FoldEvents(aggregate_type, given_events[1], Len(given_events[1])),
                     when_command[1])

C15_Step ==
    (validator' # validator /\ validator' # None) =>
        /\ given_events' = executor
        /\ store' = store
        /\ loads' = loads
        /\ commits' = commits
        /\ dispatch_calls' = dispatch_calls

\* C15: the result a validator holds is handle(command) evaluated on the state
\* obtained by applying the events of the executor, first to last, to
\* A::default(); the step that produces it reads the baseline from the executor
\* and neither loads from nor commits to the store, nor dispatches.
C15_WhenFoldsBaseline == []C15_Captured /\ [][C15_Step]_vars

\* a baseline of two events whose order decides the result: the name added last
\* is the one handle sees
C15_Witness ==
    /\ aggregate_type = CustomerType
    /\ validator # None
    /\ given_events = Some(<<NameAdded(""), NameAdded("John Doe")>>)
    /\ when_command = Some(AddCustomerName("Jane Doe"))
    /\ ~validator[1].ok

\* ------------------------------------------------------------------ C16
\* two event vectors are equal element by element, in the same order
SameEvents(events, expected_events) ==
    /\ Len(events) = Len(expected_events)
    /\ \A i \in 1..Len(events) : events[i] = expected_events[i]

\* results a validator can hold by its type: success with any vector of events,
\* a user error, a technical error
ResultValues(A) ==
    {Ok(events) : events \in EventVecs(A)}
        \cup {Err(UserError(m)) : m \in ErrorMessages}
        \cup {Err(TechnicalError(m)) : m \in ErrorMessages}

\* no test was started yet
TestNotStarted == executor = None /\ validator = None /\ verdict = "none"

C16_Asserted ==
    /\ (assertion # None /\ assertion[1].method = "then_expect_events") =>
          (verdict = "passed" <=>
              /\ captured[1].ok
              /\ SameEvents(captured[1].events, assertion[1].events))
    /\ TestNotStarted =>
          \A r \in ResultValues(aggregate_type), e \in EventVecs(aggregate_type) :
              ExpectEvents(r, e) = "passed" <=> (r.ok /\ SameEvents(r.events, e))

\* C16: then_expect_events(expected) passes exactly when the captured result is a
\* success whose events equal expected element by element and in the same order;
\* it panics on every error result and on every difference in length, content
\* or order.
C16_ExpectEvents == C16_Asserted

\* the expectation passed on a one-event result, and panicked on an error result
C16_Witness ==
    /\ assertion # None /\ assertion[1].method = "then_expect_events"
    /\ verdict = "passed"
    /\ Len(captured[1].events) = 1

C16_WitnessPanic ==
    /\ assertion # None /\ assertion[1].method = "then_expect_events"
    /\ verdict = "expected success, received aggregate error"

\* ------------------------------------------------------------------ C17
C17_Asserted ==
    /\ (assertion # None /\ assertion[1].method = "then_expect_error") =>
          (verdict = "passed" <=>
              /\ ~captured[1].ok
              /\ captured[1].error.kind = "UserError"
              /\ captured[1].error.message = assertion[1].message)
    /\ TestNotStarted =>
          \A r \in ResultValues(aggregate_type), m \in ErrorMessages :
              ExpectError(r, m) = "passed" <=>
                  (~r.ok /\ r.error.kind = "UserError" /\ r.error.message = m)

\* C17: then_expect_error(message) passes exactly when the captured result is a
\* user error whose message equals message; a success, a technical error and a
\* user error with another message all panic.
C17_ExpectError == C17_Asserted

\* the expectation passed on the user error of the aggregate
C17_Witness ==
    /\ assertion # None /\ assertion[1].method = "then_expect_error"
    /\ verdict = "passed"
    /\ captured[1] = Err(UserError(assertion[1].message))

\* ------------------------------------------------------------------ C18
\* the vector holds a NameAdded event
HasNameAdded(events) == \E i \in 1..Len(events) : events[i].type = "NameAdded"

\* C18: Customer: AddCustomerName(n) on a history without NameAdded yields
\* exactly [NameAdded(n)]; on a history that holds a NameAdded event it fails
\* with the user error "a name has already been added for this customer".
C18_AddCustomerName ==
    (/\ aggregate_type = CustomerType
     /\ validator # None
     /\ when_command[1].type = "AddCustomerName") =>
        IF HasNameAdded(given_events[1])
        THEN validator[1] =
                Err(UserError("a name has already been added for this customer"))
        ELSE validator[1] = Ok(<<NameAdded(when_command[1].changed_name)>>)

\* ------------------------------------------------------------------ C19
\* C19 (determinism of fold and handle) compares two evaluations of the same
\* function on the same arguments; Apply, ApplyAll and Handle are operators, so
\* the comparison holds of any model and no formula is stated for it.

\* ------------------------------------------------------------------ C20
\* every actor started for id is alive
AllAlive(id) == \A a \in 1..Len(actors) : actors[a].id = id => Connected(a)

\* the threads whose last call returned an address of an actor of id
Receivers(id) ==
    {t \in Threads : /\ rresult[t] # None
                     /\ rresult[t][1].ok
                     /\ actors[rresult[t][1].addr].id = id}

\* C20: callers that race on get_with_factory for an id without entry are
\* serialised by the mutex: as long as the actor created for the id stays alive
\* the factory has been invoked exactly once for the id, by one caller, and
\* every caller that got an address for the id got the same one, the one the map
\* holds; at most one caller is between its lookup and its insert at any time.
C20_ConcurrentCreation ==
    /\ \A id \in RegistryIds :
          (AllAlive(id) /\ Receivers(id) # {}) =>
              /\ factory_calls[id] = 1
              /\ Cardinality({t \in Receivers(id) : rpath[t] = "created"}) <= 1
              /\ \A t, u \in Receivers(id) :
                    rresult[t][1].addr = rresult[u][1].addr
              /\ \A t \in Receivers(id) :
                    map[id] # None /\ map[id][1].addr = rresult[t][1].addr
    /\ Cardinality({t \in Threads : rpc[t] = "factory"}) <= 1

\* every thread called for the same id, one of them created the actor and all of
\* them hold its address
C20_Witness ==
    \E id \in RegistryIds :
        /\ Receivers(id) = Threads
        /\ AllAlive(id)
        /\ factory_calls[id] = 1
        /\ \E t \in Threads : rpath[t] = "created"
        /\ \E t \in Threads : rpath[t] = "hit"

\* ------------------------------------------------------------------ C21
\* the threads whose factory is running
InFactory == {t \in Threads : rpc[t] = "factory"}

C21_Stored ==
    /\ Cardinality(InFactory) <= 1
    /\ \A t \in InFactory : lock = t
    /\ lock # 0 => lock \in InFactory

C21_Step ==
    InFactory # {} =>
        /\ ~RegistryCall
        /\ \A t \in Threads \ InFactory :
              /\ rpc'[t] = rpc[t]
              /\ rresult'[t] = rresult[t]
              /\ rpath'[t] = rpath[t]
        /\ map' # map =>
              \E t \in InFactory :
                  /\ FactoryDone(t)
                  /\ \A id \in RegistryIds \ {rcall[t][1].id} : map'[id] = map[id]

\* C21: the mutex is held from the lookup through the factory and the insert: at
\* most one factory is running at any time, over all ids, and its thread holds the
\* mutex; while it runs no get_with_factory call, for the same or another id,
\* gets to its lookup or returns, and the map changes only by the insert of the
\* thread whose factory ran.
C21_LockHeldOverFactory == []C21_Stored /\ [][C21_Step]_vars

\* a factory is running for one id while the other id has a live entry that an
\* idle thread could ask for, and calls are left to be made
C21_Witness ==
    \E t, u \in Threads, id \in RegistryIds :
        /\ t # u
        /\ rpc[t] = "factory" /\ lock = t
        /\ rcall[t][1].id # id
        /\ rpc[u] = "idle"
        /\ map[id] # None /\ Connected(map[id][1].addr)
        /\ registry_calls < MaxRegistryCalls

\* ------------------------------------------------------------------ C22
\* the sequence numbers of the events of id that query processor q holds, in the
\* order they were delivered
RECURSIVE DeliveredSequences(_, _)
DeliveredSequences(events, id) ==
    IF events = <<>> THEN <<>>
    ELSE IF Head(events).aggregate_id = id
         THEN <<Head(events).sequence>> \o DeliveredSequences(Tail(events), id)
         ELSE DeliveredSequences(Tail(events), id)

StrictlyIncreasing(numbers) ==
    \A i, j \in 1..Len(numbers) : i < j => numbers[i] < numbers[j]

RECURSIVE BatchesOf(_, _)
BatchesOf(calls, id) ==
    IF calls = <<>> THEN <<>>
    ELSE IF Head(calls).aggregate_id = id /\ Head(calls).events # <<>>
         THEN <<Head(calls)>> \o BatchesOf(Tail(calls), id)
         ELSE BatchesOf(Tail(calls), id)

\* the batch is in commit order: consecutive sequence numbers, ascending
BatchInCommitOrder(batch) ==
    \A i \in 1..Len(batch) : batch[i].sequence = batch[1].sequence + i - 1

\* the execute call of batch b loaded the aggregate when the events of batch a
\* were already committed
LoadedAfterCommitOf(b, a) ==
    aggregate_context[b.call][1].current_sequence >= a.events[Len(a.events)].sequence

Starts(d) == pc[d] = "idle" /\ pc'[d] # "idle"

\* the history of id holds a Tested event with this name
Confirmed(s, id, test_name) ==
    \E i \in 1..Len(s[id]) : s[id][i].payload = Tested(test_name)

C23_Step ==
    \A d \in Calls : Starts(d) =>
        LET id == call'[d][1].aggregate_id
            command == call'[d][1].command
            context == aggregate_context'[d][1]
        IN /\ \A c \in Calls \ {d} :
                 (ReturnedOk(c) /\ IdOf(c) = id) =>
                     /\ \A i \in 1..Len(committed_events[c]) :
                           /\ committed_events[c][i].sequence <= context.current_sequence
                           /\ store[id][committed_events[c][i].sequence] =
                                 committed_events[c][i]
                     /\ context.aggregate =
                           FoldStored(id, context.current_sequence)
           /\ context.current_sequence = Len(store[id])
           /\ (aggregate_type = TestAggregateType /\ command.type = "ConfirmTest") =>
                 IF Confirmed(store, id, command.test_name)
                 THEN /\ pc'[d] = "done"
                      /\ result'[d] = Some(Err(UserError("test already performed")))
                 ELSE /\ pc'[d] = "commit"
                      /\ resultant_events'[d] = <<Tested(command.test_name)>>

\* C23: an execute call that starts after an earlier execute for the same id
\* returned Ok handles its command on a state that holds every event the earlier
\* call committed (the aggregate is the fold of the whole stored history).  For
\* TestAggregate, handle answers ConfirmTest(name) with [Tested(name)] when the
\* history of the id holds no Tested(name), and with the user error "test already
\* performed" when it holds one, so on every execute after one that committed it.
C23_ReadYourWrites == [][C23_Step]_vars

\* framework_test: ConfirmTest returned Ok for an id, and the same ConfirmTest
\* made afterwards for that id returned "test already performed"
C23_Witness ==
    \E c, d \in Calls :
        /\ c # d
        /\ aggregate_type = TestAggregateType
        /\ ReturnedOk(c) /\ ReturnedUserError(d)
        /\ IdOf(c) = IdOf(d)
        /\ call[c][1].command = call[d][1].command
        /\ call[c][1].command.type = "ConfirmTest"
        /\ overlap[d] = {}
        /\ aggregate_context[d][1].current_sequence = 1

\* ------------------------------------------------------------------ C24
\* the execute call that takes this step, if the step is one of the pipeline
Steps(c) == pc'[c] # pc[c] \/ processor'[c] # processor[c]

\* every other call that has started is for another id
AloneOnItsId(c) ==
    \A d \in Calls \ {c} : call[d] # None => IdOf(d) # IdOf(c)

C24_Step ==
    \A c \in Calls : Steps(c) =>
        \A id \in AggregateIds :
            (call'[c] # None /\ id # call'[c][1].aggregate_id) =>
                /\ store'[id] = store[id]
                /\ CurrentSequence(store'[id]) = CurrentSequence(store[id])

C24_Stored ==
    \A c \in Calls :
        /\ (call[c] # None /\ AloneOnItsId(c)) =>
              /\ ~CommitConflicted(c)
              /\ (pc[c] = "done" /\ HandleResult(c).ok) =>
                    /\ ReturnedOk(c)
                    /\ Payloads(committed_events[c]) = resultant_events[c]
        /\ CommitConflicted(c) =>
              \E d \in Calls \ {c} :
                  /\ call[d] # None
                  /\ IdOf(d) = IdOf(c)
                  /\ committed_events[d] # <<>>
                  /\ committed_events[d][1].sequence = LoadedSequence(c) + 1

\* C24: a step of an execute call for one id leaves the stored history and the
\* sequence number of every other id unchanged; a call meets a concurrency
\* conflict only when another call for the same id committed at the version it
\* had loaded, so a call whose concurrent calls are all for other ids commits
\* whenever its own handle succeeded, and returns Ok.
C24_IndependentIds == []C24_Stored /\ [][C24_Step]_vars

\* two execute calls for different ids overlapped (the second loaded while the
\* first had not committed yet) and both committed an event and returned Ok
C24_Witness ==
    \E c, d \in Calls :
        /\ call[c] # None /\ call[d] # None
        /\ IdOf(c) # IdOf(d)
        /\ c \in overlap[d]
        /\ ReturnedOk(c) /\ ReturnedOk(d)
        /\ Len(store[IdOf(c)]) = 1 /\ Len(store[IdOf(d)]) = 1

\* ------------------------------------------------------------------ C25
\* handle returned an empty list of events to call c
EmptyOutcome(c) == loads[c] > 0 /\ HandleResult(c) = Ok(<<>>)

C25_Step ==
    \A c \in Calls :
        (Leaves(c, "commit") /\ resultant_events[c] = <<>>) =>
            /\ commits'[c] = commits[c] + 1
            /\ pc'[c] = "dispatch" =>
                  /\ store' = store
                  /\ committed_events'[c] = <<>>

C25_Stored ==
    \A c \in Calls : (call[c] # None /\ EmptyOutcome(c)) =>
        /\ resultant_events[c] = <<>>
        /\ pc[c] \in {"commit", "dispatch", "done"}
        /\ pc[c] = "commit" => commits[c] = 0
        /\ pc[c] \in {"dispatch", "done"} => commits[c] = 1
        /\ pc[c] = "done" => (ReturnedOk(c) \/ CommitConflicted(c))
        /\ ReturnedOk(c) =>
              \A q \in Processors :
                  /\ Cardinality(DispatchesOf(q, c)) = 1
                  /\ \A k \in DispatchesOf(q, c) :
                        /\ dispatch_calls[q][k].events = <<>>
                        /\ dispatch_calls[q][k].aggregate_id = IdOf(c)
        /\ CommitConflicted(c) => NoDispatchOf(c)

\* C25: when handle returns an empty list of events the call still makes its
\* commit call, with the empty batch; when that commit succeeds the store is left
\* as it was (history and sequence number of the id unchanged), dispatch is called
\* once on every query processor with an empty batch, and the call returns Ok.
C25_EmptyOutcome == []C25_Stored /\ [][C25_Step]_vars

\* Customer UpdateEmail on a fresh id: committed, dispatched as an empty batch to
\* every query processor, returned Ok, nothing stored
C25_Witness ==
    \E c \in Calls :
        /\ aggregate_type = CustomerType
        /\ call[c] # None
        /\ call[c][1].command.type = "UpdateEmail"
        /\ ReturnedOk(c)
        /\ commits[c] = 1
        /\ store[IdOf(c)] = <<>>
        /\ \A q \in Processors : Cardinality(DispatchesOf(q, c)) = 1

\* ------------------------------------------------------------------ C26
\* the position of query processor q in the vector the framework was built with
Position(q) == CHOOSE i \in 1..Len(QueryProcessors) : QueryProcessors[i] = q

\* call c is in its loop and the dispatch of processor number i has not returned
AwaitsDispatch(c, i) == pc[c] = "dispatch" /\ processor[c] = i

C26_Stored ==
    \A c \in Calls :
        /\ \A q \in Processors :
              DispatchesOf(q, c) # {} =>
                  \A p \in Processors :
                      Position(p) < Position(q) => DispatchesOf(p, c) # {}
        /\ \A i \in 1..Len(QueryProcessors) : AwaitsDispatch(c, i) =>
              /\ result[c] = None
              /\ \A q \in Processors :
                    /\ Position(q) >= i => DispatchesOf(q, c) = {}
                    /\ Position(q) < i => Cardinality(DispatchesOf(q, c)) = 1
              /\ \A k \in 1..Len(committed_events[c]) : Stored(committed_events[c][k])

C26_Step ==
    \A c \in Calls : \A q \in Processors :
        (Cardinality(DispatchesOf(q, c))' > Cardinality(DispatchesOf(q, c))) =>
            /\ AwaitsDispatch(c, Position(q))
            /\ \A p \in Processors \ {q} : dispatch_calls'[p] = dispatch_calls[p]
            /\ result'[c] # None => Position(q) = Len(QueryProcessors)

\* C26: the query processors are dispatched to one after the other in the order
\* of the vector, one dispatch per step of the call: as long as the dispatch of
\* processor i has not returned the call has not returned, the processors from i
\* on have not received the batch, the ones before i have received it once, and
\* the events of the batch are in the store; Ok is returned only with the return
\* of the last dispatch.
C26_SequentialDispatch == []C26_Stored /\ [][C26_Step]_vars

\* a call has dispatched its event to the first query processor and awaits the
\* second, while every other call has returned: if that dispatch never returns
\* the call never does, and the event is in the store
C26_Witness ==
    \E c \in Calls :
        /\ AwaitsDispatch(c, 2)
        /\ committed_events[c] # <<>>
        /\ Stored(committed_events[c][1])
        /\ Cardinality(DispatchesOf(QueryProcessors[1], c)) = 1
        /\ DispatchesOf(QueryProcessors[2], c) = {}
        /\ \A d \in Calls \ {c} : pc[d] = "done"

\* ------------------------------------------------------------------ C27
\* the factory of thread t panics in this step
FactoryPanics(t) == FactoryDone(t) /\ rcall[t][1].factory = "panic"

C27_Step ==
    /\ \A t \in Threads : FactoryPanics(t) =>
          /\ map' = map
          /\ actors' = actors
          /\ poisoned'
          /\ rpc'[t] = "panicked"
          /\ rresult'[t] = rresult[t]
    /\ poisoned =>
          /\ poisoned'
          /\ map' = map
          /\ factory_calls' = factory_calls
          /\ Len(actors') = Len(actors)
          /\ RegistryCall =>
                /\ rresult'[last_call'[1].thread] = Some(RegErr(LockError))
                /\ rpc'[last_call'[1].thread] = "idle"
    /\ (~poisoned /\ poisoned') => \E t \in Threads : FactoryPanics(t)

\* C27: a factory that panics inside get_with_factory leaves the map without a
\* new entry and the mutex poisoned; the mutex stays poisoned, and from then on
\* every get_with_factory call, for whatever id and type, with or without a live
\* entry for the id, returns LockError, no factory runs and the map never changes
\* again.
C27_PanicPoisons == [][C27_Step]_vars

\* the first call created a live actor for one id, the factory of the second
\* call panicked for the other id, and the third call, for the id with the live
\* entry and its right type, was answered LockError
C27_Witness ==
    \E t \in Threads, id \in RegistryIds :
        /\ registry_calls = 3
        /\ poisoned
        /\ last_call[1].thread = t /\ last_call[1].id = id
        /\ rresult[t] = Some(RegErr(LockError))
        /\ map[id] # None
        /\ map[id][1].type = last_call[1].type
        /\ Connected(map[id][1].addr)
        /\ \E other \in RegistryIds \ {id} : map[other] = None /\ factory_calls[other] = 1

====
